---- MODULE Spec2Model ----
(***************************************************************************)
(* Model of pycasaxps.plot.CasaData (src/pycasaxps/plot.py).               *)
(*                                                                         *)
(* A CasaData object holds a pandas DataFrame (self.data) read from a      *)
(* CasaXPS ASCII export, the list of cycle column names (self.cycles) and  *)
(* the collection of component column names (self.components, which is a   *)
(* pandas Index after construction and a Python list after a rename).      *)
(*                                                                         *)
(* Column names are Python strings; they are modelled as sequences of      *)
(* one-character strings so that slicing (c[0:5]), formatting              *)
(* ('Cycle{}'.format(i)) and the substring test (name in comp) are         *)
(* computed rather than assumed.                                           *)
(***************************************************************************)
EXTENDS Integers, Sequences, FiniteSets, TLC

VARIABLES file,        \* the parsed input file: [cols, rows]
          pc,          \* "new" | "ready" | "failed" (constructor raised)
          data,        \* self.data: [cols, rows], a row is [label, vals]
          cycles,      \* self.cycles (Python list)
          components,  \* self.components
          compsIndex,  \* TRUE iff self.components is a pandas Index
          err,         \* outcome of the last call: "none" or the exception
          clean,       \* no rename, crop or filter_comps call has raised
          sized,       \* every list given to rename had the length of the
                       \* collection it renames
          proper       \* sized, and no rename left two columns of one name

vars == <<file, pc, data, cycles, components, compsIndex, err,
          clean, sized, proper>>

\* ---------------------------------------------------------------- bounds
MaxCycles == 2   \* most Cycle columns of an input file
MaxComps == 2    \* most component columns of an input file
MaxRows == 3     \* most data rows of an input file
MaxVal == 1      \* largest intensity of a component cell

\* ----------------------------------------------------------------- names
Digits == <<"0", "1", "2", "3", "4", "5", "6", "7", "8", "9">>

RECURSIVE Decimal(_)
\* '{}'.format(i) for a non-negative int
Decimal(i) == IF i < 10 THEN <<Digits[i + 1]>>
              ELSE Decimal(i \div 10) \o <<Digits[(i % 10) + 1]>>

BERaw == <<"B", ".", "E", ".">>
BE == <<"B", "E">>
CyclePrefix == <<"C", "y", "c", "l", "e">>
UnnamedPrefix == <<"U", "n", "n", "a", "m", "e", "d", ":">>
Background == <<"B", "a", "c", "k", "g", "r", "o", "u", "n", "d">>
Envelope == <<"E", "n", "v", "e", "l", "o", "p", "e">>

\* Python s[0:n]
Take(s, n) == SubSeq(s, 1, IF Len(s) < n THEN Len(s) ELSE n)

\* c[0:8] == 'Unnamed:'
IsUnnamed(c) == Take(c, 8) = UnnamedPrefix

\* c[0:5] == 'Cycle'
IsCycle(c) == Take(c, 5) = CyclePrefix

\* 'Cycle{}'.format(i)
CycleName(i) == CyclePrefix \o Decimal(i)

\* faulty variant of Contains: name must begin comp (comp.startswith(name))
ContainsAtStart(name, comp) == Take(comp, Len(name)) = name

\* Python `name in comp` for two strings: name occurs in comp as a substring
Contains(name, comp) ==
    \E i \in 1..(Len(comp) - Len(name) + 1) :
        SubSeq(comp, i, i + Len(name) - 1) = name

Range(s) == {s[i] : i \in 1..Len(s)}

\* ------------------------------------------------------------- DataFrame
\* the elements of s at the positions in K, in order
KeepIdx(s, K) ==
    LET F[i \in 0..Len(s)] ==
            IF i = 0 THEN <<>>
            ELSE IF i \in K THEN Append(F[i - 1], s[i]) ELSE F[i - 1]
    IN F[Len(s)]

\* positions of the columns labelled name
ColPositions(df, name) == {i \in 1..Len(df.cols) : df.cols[i] = name}

\* `name in df.columns`
HasCol(df, name) == ColPositions(df, name) # {}

\* list(df.columns).index(name): 0-based position of the first match
PyIndex(s, x) == (CHOOSE i \in 1..Len(s) :
                      s[i] = x /\ \A j \in 1..(i - 1) : s[j] # x) - 1

\* faulty variant of PySlice: the slice takes its end position too (s[a:b+1])
PySliceInclusive(s, a, b) ==
    SubSeq(s, a + 1, IF b + 1 < Len(s) THEN b + 1 ELSE Len(s))

\* s[a:b] for 0 <= a and 0 <= b
PySlice(s, a, b) == SubSeq(s, a + 1, IF b < Len(s) THEN b ELSE Len(s))

\* df.drop(columns at positions P): also DataFrame.pop / del df[label]
DropCols(df, P) ==
    LET K == (1..Len(df.cols)) \ P
    IN [cols |-> KeepIdx(df.cols, K),
        rows |-> [r \in 1..Len(df.rows) |->
                     [label |-> df.rows[r].label,
                      vals |-> KeepIdx(df.rows[r].vals, K)]]]

\* a Python dict built by successive d[key] = value, as the sequence of the
\* assignments <<key, value>>: the last assignment to a key is its value
HasKey(d, k) == \E i \in 1..Len(d) : d[i][1] = k

DictGet(d, k) ==
    d[CHOOSE i \in 1..Len(d) :
          d[i][1] = k /\ \A j \in (i + 1)..Len(d) : d[j][1] # k][2]

\* df.rename(d, axis=1, inplace=True): every label that is a key is replaced
RenameCols(df, d) ==
    [df EXCEPT !.cols = [i \in 1..Len(df.cols) |->
                            IF HasKey(d, df.cols[i]) THEN DictGet(d, df.cols[i])
                            ELSE df.cols[i]]]

\* faulty variant of IdxMax: the label of the last row holding the largest value
IdxMaxLast(df, p) ==
    LET n == Len(df.rows)
        i == CHOOSE i \in 1..n :
                 /\ \A j \in 1..n : df.rows[j].vals[p] <= df.rows[i].vals[p]
                 /\ \A j \in (i + 1)..n : df.rows[j].vals[p] < df.rows[i].vals[p]
    IN df.rows[i].label

\* Series.idxmax() of the column at position p: the label of the first row
\* holding the largest value (the table has at least one row)
IdxMax(df, p) ==
    LET n == Len(df.rows)
        i == CHOOSE i \in 1..n :
                 /\ \A j \in 1..n : df.rows[j].vals[p] <= df.rows[i].vals[p]
                 /\ \A j \in 1..(i - 1) : df.rows[j].vals[p] < df.rows[i].vals[p]
    IN df.rows[i].label

\* df[col][label]: the value of the column at position p in the row labelled
\* label (a label-based lookup: the index is never reset)
Loc(df, p, label) ==
    LET i == CHOOSE i \in 1..Len(df.rows) : df.rows[i].label = label
    IN df.rows[i].vals[p]

\* the first exception of a sequence of outcomes, "none" if there is none
FirstErr(es) ==
    IF \A i \in 1..Len(es) : es[i] = "none" THEN "none"
    ELSE es[CHOOSE i \in 1..Len(es) :
                es[i] # "none" /\ \A j \in 1..(i - 1) : es[j] = "none"]

\* ------------------------------------------------------------ the object
Self == [data |-> data, cycles |-> cycles, components |-> components,
         compsIndex |-> compsIndex]

Ok(self) == [self |-> self, err |-> "none"]
Raise(self, e) == [self |-> self, err |-> e]

\* arguments of rename: None, the object's own current collection passed
\* back, or a new Python list
None == [k |-> "none", v |-> <<>>]
Same == [k |-> "self", v |-> <<>>]
List(l) == [k |-> "list", v |-> l]

\* the names rename() gives n cycles: enumerate counts from 0
NumericNames(n) == [i \in 1..n |-> CycleName(i - 1)]

\* faulty variant of NewCycles: a list passed as cycles is ignored
NewCyclesNumeric(self, cycArg) == NumericNames(Len(self.cycles))

\* the list rename binds to self.cycles
NewCycles(self, cycArg) ==
    IF cycArg.k = "none" THEN NumericNames(Len(self.cycles))
    ELSE IF cycArg.k = "self" THEN self.cycles
    ELSE cycArg.v

\* CasaData.rename
rename(self, compArg, cycArg) ==
    LET n == Len(self.cycles)
        newCycles == NewCycles(self, cycArg)
        compsIn == IF compArg.k = "self" THEN self.components ELSE compArg.v
    IN IF Len(newCycles) < n
       THEN Raise(self, "IndexError")
       ELSE
         LET cycPairs == [i \in 1..n |-> <<self.cycles[i], newCycles[i]>>]
             m == IF Len(compsIn) < Len(self.components)
                  THEN Len(compsIn) ELSE Len(self.components)
             compPairs == IF compArg.k = "none" THEN <<>>
                          ELSE [i \in 1..m |->
                                   <<self.components[i], compsIn[i]>>]
         IN Ok([data |-> RenameCols(self.data, cycPairs \o compPairs),
                cycles |-> newCycles,
                components |-> IF compArg.k = "none" THEN self.components
                               ELSE compsIn,
                compsIndex |-> IF compArg.k = "list" THEN FALSE
                               ELSE self.compsIndex])

\* pd.read_csv(file, skiprows=6, sep='\t'): the rows get the labels 0, 1, ...
ReadCsv(f) ==
    [cols |-> f.cols,
     rows |-> [r \in 1..Len(f.rows) |-> [label |-> r - 1, vals |-> f.rows[r]]]]

\* CasaData.__init__
construct(f, rn) ==
    LET df0 == ReadCsv(f)
        unnamed == {i \in 1..Len(df0.cols) : IsUnnamed(df0.cols[i])}
        df1 == DropCols(df0, unnamed)
        cyc == SelectSeq(df1.cols, IsCycle)
        empty == [data |-> df1, cycles |-> cyc, components |-> <<>>,
                  compsIndex |-> FALSE]
    IN IF HasCol(df1, Background) /\ cyc = <<>>
       THEN Raise(empty, "IndexError")
       ELSE
         LET comps == IF HasCol(df1, Background)
                      THEN PySlice(df1.cols,
                                   PyIndex(df1.cols, cyc[Len(cyc)]) + 1,
                                   PyIndex(df1.cols, Background))
                      ELSE <<>>
             self == [data |-> RenameCols(df1, <<<<BERaw, BE>>>>),
                      cycles |-> cyc,
                      components |-> comps,
                      compsIndex |-> HasCol(df1, Background)]
         IN IF rn THEN rename(self, None, None) ELSE Ok(self)

\* faulty variant of Inside: the bounds themselves are kept (>= and <=)
InsideClosed(be, be_min, be_max) == be >= be_min /\ be <= be_max

\* (self.data['BE'] > be_min) & (self.data['BE'] < be_max) for one value
Inside(be, be_min, be_max) == be > be_min /\ be < be_max

\* CasaData.crop
crop(self, be_min, be_max) ==
    IF ~HasCol(self.data, BE) THEN Raise(self, "KeyError")
    ELSE
      LET p == PyIndex(self.data.cols, BE) + 1
          Kept(r) == Inside(r.vals[p], be_min, be_max)
      IN Ok([self EXCEPT !.data.rows = SelectSeq(self.data.rows, Kept)])

\* faulty variant of IndexDrop: the label is not dropped
IndexDropNothing(idx, label) == idx

\* Index.drop(label)
IndexDrop(idx, label) == SelectSeq(idx, LAMBDA c : c # label)

RECURSIVE FilterLoop(_, _, _, _)
\* the loop of filter_comps over comps, the collection self.components was
\* bound to when the loop began, from its i-th element on
FilterLoop(self, comps, i, name) ==
    IF i > Len(comps) THEN Ok(self)
    ELSE
      LET comp == comps[i]
      IN IF Contains(name, comp) THEN FilterLoop(self, comps, i + 1, name)
         ELSE IF ~HasCol(self.data, comp) THEN Raise(self, "KeyError")
         ELSE
           LET popped == [self EXCEPT
                            !.data = DropCols(@, ColPositions(@, comp))]
           IN IF ~self.compsIndex THEN Raise(popped, "AttributeError")
              ELSE IF comp \notin Range(self.components)
                   THEN Raise(popped, "KeyError")
              ELSE FilterLoop([popped EXCEPT
                                 !.components = IndexDrop(@, comp)],
                              comps, i + 1, name)

\* CasaData.filter_comps
filter_comps(self, name) == FilterLoop(self, self.components, 1, name)

\* the exception raised while one component's peak is looked up: the column
\* lookup, the idxmax of an empty column, the BE lookup, and the lookup by
\* label in a column whose name two columns share
PeakErr(df, comp) ==
    IF ~HasCol(df, comp) THEN "KeyError"
    ELSE IF df.rows = <<>> THEN "ValueError"
    ELSE IF ~HasCol(df, BE) THEN "KeyError"
    ELSE IF Cardinality(ColPositions(df, comp)) > 1 THEN "KeyError"
    ELSE "none"

\* (self.data['BE'][idx], self.data[comp][idx]) with idx = data[comp].idxmax()
PeakAt(df, comp) ==
    LET idx == IdxMax(df, PyIndex(df.cols, comp) + 1)
    IN <<Loc(df, PyIndex(df.cols, BE) + 1, idx),
         Loc(df, PyIndex(df.cols, comp) + 1, idx)>>

\* CasaData.peaks: the dict, as a function of its keys, or the exception
peaks(self) ==
    LET comps == self.components
        e == FirstErr([i \in 1..Len(comps) |-> PeakErr(self.data, comps[i])])
    IN [err |-> e,
        val |-> IF e = "none"
                THEN [c \in Range(comps) |-> PeakAt(self.data, c)]
                ELSE <<>>]

RECURSIVE Concat(_)
Concat(ss) == IF ss = <<>> THEN <<>> ELSE Head(ss) \o Concat(Tail(ss))

Step(kind, col) == [kind |-> kind, col |-> col]

\* faulty variant of FitSteps: background and envelope are always drawn
FitStepsAlways(self) ==
    <<Step("get", BE), Step("get", Background),
      Step("get", BE), Step("get", Envelope)>>

\* "if fitted, plot background and envelope"
FitSteps(self) ==
    IF Len(self.components) > 0
    THEN <<Step("get", BE), Step("get", Background),
           Step("get", BE), Step("get", Envelope)>>
    ELSE <<>>

\* what plot (called with its default arguments) asks of self.data, in order
PlotSteps(self) ==
    LET CycSteps(c) == <<Step("get", BE), Step("get", c)>>
        CompSteps(c) == <<Step("get", BE), Step("get", c), Step("idxmax", c),
                          Step("get", BE), Step("get", c), Step("loc", c)>>
    IN Concat([i \in 1..Len(self.cycles) |-> CycSteps(self.cycles[i])])
       \o Concat([i \in 1..Len(self.components) |->
                     CompSteps(self.components[i])])
       \o FitSteps(self)
       \o <<Step("get", BE), Step("get", BE), Step("xlim", BE)>>

\* the exception a step raises on df, "none" if it succeeds
StepErr(df, st) ==
    CASE st.kind = "get" -> IF HasCol(df, st.col) THEN "none" ELSE "KeyError"
      [] st.kind = "idxmax" -> IF df.rows = <<>> THEN "ValueError" ELSE "none"
      [] st.kind = "loc" -> IF Cardinality(ColPositions(df, st.col)) > 1
                            THEN "KeyError" ELSE "none"
      [] st.kind = "xlim" -> IF df.rows = <<>> THEN "ValueError" ELSE "none"

\* CasaData.plot: the exception if any, the columns looked up until then
\* (reads) and the peaks annotated until then (annot: <<label, x, y>>)
plot(self) ==
    LET df == self.data
        steps == PlotSteps(self)
        errs == [i \in 1..Len(steps) |-> StepErr(df, steps[i])]
        e == FirstErr(errs)
        last == IF e = "none" THEN Len(steps)
                ELSE CHOOSE i \in 1..Len(steps) :
                         errs[i] # "none" /\ \A j \in 1..(i - 1) : errs[j] = "none"
        done == {j \in 1..Len(self.components) :
                    e = "none" \/ 2 * Len(self.cycles) + 6 * j < last}
        labelled == {j \in done : self.components[j] # <<>>}
    IN [err |-> e,
        reads |-> {steps[i].col : i \in {k \in 1..last : steps[k].kind = "get"}},
        annot |-> KeepIdx([j \in 1..Len(self.components) |->
                              IF j \in labelled
                              THEN <<self.components[j]>>
                                   \o PeakAt(df, self.components[j])
                              ELSE <<>>],
                          labelled)]

\* ----------------------------------------------------------------- input
\* names of fitted components an input file may hold, in file order
CompPool == << <<"a">>, <<"a", "b">>, <<"b">> >>

\* raw name of the i-th Cycle column of an export
RawCycle(i) == CyclePrefix \o Decimal(i)

\* the name read_csv gives the empty header cell at 0-based position i
Unnamed(i) == UnnamedPrefix \o <<" ">> \o Decimal(i)

Sum(s) == LET F[i \in 0..Len(s)] == IF i = 0 THEN 0 ELSE F[i - 1] + s[i]
          IN F[Len(s)]

\* an export with k cycles, the components comps, Background and Envelope
\* columns iff bg, and rows whose component intensities are cv; the binding
\* energy of the i-th row is i, the background is 0, the envelope the sum of
\* the components, and every cycle measures the envelope
MkFile(k, comps, bg, cv) ==
    LET head == <<BERaw>> \o [i \in 1..k |-> RawCycle(i)] \o comps
                \o (IF bg THEN <<Background, Envelope>> ELSE <<>>)
    IN [cols |-> head \o <<Unnamed(Len(head))>>,
        rows |-> [r \in 1..Len(cv) |->
                     <<r>> \o [i \in 1..k |-> Sum(cv[r])] \o cv[r]
                     \o (IF bg THEN <<0, Sum(cv[r])>> ELSE <<>>) \o <<0>>]]

\* the intensities of c components over Len(v) rows: the first component has
\* the profile v, the j-th the same profile moved cyclically by j - 1 rows
Table(c, v) ==
    [r \in 1..Len(v) |-> [j \in 1..c |-> v[((r + j - 2) % Len(v)) + 1]]]

\* a profile that rises by one a row up to MaxVal and stays there
Ramp(n) == [i \in 1..n |-> IF i - 1 < MaxVal THEN i - 1 ELSE MaxVal]

\* every shape of export (cycles, components, fitted or not, rows) ...
ShapeFiles ==
    {MkFile(k, SubSeq(CompPool, 1, c), bg, Table(c, Ramp(n))) :
        k \in 0..MaxCycles, c \in 0..MaxComps, bg \in BOOLEAN, n \in 0..MaxRows}

\* ... and every intensity profile of a fitted component, in an export with
\* one cycle
ProfileFiles ==
    {MkFile(1, SubSeq(CompPool, 1, 1), TRUE, Table(1, v)) :
        v \in UNION {[1..n -> 0..MaxVal] : n \in 0..MaxRows}}

Files == ShapeFiles \cup ProfileFiles

\* names given to rename
Fresh(i) == <<"P">> \o Decimal(i)

FreshCyc(i) == <<"Q">> \o Decimal(i)

\* lists of one and of two new names, and a list that repeats a name
CompLists == {<<Fresh(1)>>, <<Fresh(1), Fresh(2)>>, <<Fresh(1), Fresh(1)>>}

CycLists == {<<FreshCyc(1)>>, <<FreshCyc(1), FreshCyc(2)>>}

\* the calls of rename: rename(), rename(components=self.components,
\* cycles=self.cycles), rename(components=l) and rename(cycles=l)
RenameCalls == {<<None, None>>, <<Same, Same>>}
               \cup {<<List(l), None>> : l \in CompLists}
               \cup {<<None, List(l)>> : l \in CycLists}

CropBounds == 0..(MaxRows + 1)

\* the calls of crop: a pair with be_min >= be_max leaves the empty table that
\* crop(0, 1) leaves
CropCalls == {c \in CropBounds \X CropBounds : c[1] < c[2]}

FilterTerms == {<<"a">>, <<"b">>, <<"1">>}

\* a call of rename gives lists of the lengths of the collections it renames
SizedCall(self, call) ==
    /\ call[1].k = "list" => Len(call[1].v) = Len(self.components)
    /\ call[2].k = "list" => Len(call[2].v) = Len(self.cycles)

NoDup(s) == \A i, j \in 1..Len(s) : s[i] = s[j] => i = j

\* ... and leaves no two columns of the table with the same name
ProperCall(self, call) ==
    /\ SizedCall(self, call)
    /\ NoDup(rename(self, call[1], call[2]).self.data.cols)

\* --------------------------------------------------------------- actions
Blank == [cols |-> <<>>, rows |-> <<>>]

Init ==
    /\ file \in Files
    /\ pc = "new"
    /\ data = Blank
    /\ cycles = <<>>
    /\ components = <<>>
    /\ compsIndex = FALSE
    /\ err = "none"
    /\ clean = TRUE
    /\ sized = TRUE
    /\ proper = TRUE

SetSelf(r) ==
    /\ data' = r.self.data
    /\ cycles' = r.self.cycles
    /\ components' = r.self.components
    /\ compsIndex' = r.self.compsIndex
    /\ err' = r.err

\* CasaData(file, rename=rn)
Construct ==
    /\ pc = "new"
    /\ \E rn \in BOOLEAN :
         LET r == construct(file, rn)
         IN IF r.err = "none"
            THEN pc' = "ready" /\ SetSelf(r)
            ELSE /\ pc' = "failed"
                 /\ err' = r.err
                 /\ UNCHANGED <<data, cycles, components, compsIndex>>
    /\ UNCHANGED <<file, clean, sized, proper>>

\* obj.rename(components=call[1], cycles=call[2])
Rename ==
    /\ pc = "ready"
    /\ \E call \in RenameCalls :
         LET r == rename(Self, call[1], call[2])
         IN /\ SetSelf(r)
            /\ clean' = (clean /\ r.err = "none")
            /\ sized' = (sized /\ SizedCall(Self, call))
            /\ proper' = (proper /\ ProperCall(Self, call))
    /\ UNCHANGED <<file, pc>>

\* obj.crop(be_min, be_max)
Crop ==
    /\ pc = "ready"
    /\ \E c \in CropCalls :
         LET r == crop(Self, c[1], c[2])
         IN SetSelf(r) /\ clean' = (clean /\ r.err = "none")
    /\ UNCHANGED <<file, pc, sized, proper>>

\* obj.filter_comps(name)
FilterComps ==
    /\ pc = "ready"
    /\ \E name \in FilterTerms :
         LET r == filter_comps(Self, name)
         IN SetSelf(r) /\ clean' = (clean /\ r.err = "none")
    /\ UNCHANGED <<file, pc, sized, proper>>

\* obj.peaks
PeaksCall ==
    /\ pc = "ready"
    /\ err' = peaks(Self).err
    /\ UNCHANGED <<file, pc, data, cycles, components, compsIndex,
                   clean, sized, proper>>

\* obj.plot()
PlotCall ==
    /\ pc = "ready"
    /\ err' = plot(Self).err
    /\ UNCHANGED <<file, pc, data, cycles, components, compsIndex,
                   clean, sized, proper>>

Next == Construct \/ Rename \/ Crop \/ FilterComps \/ PeaksCall \/ PlotCall

Spec == Init /\ [][Next]_vars

\* ------------------------------------------------------------ properties
\* the object CasaData(file, rename=rn) is right after its construction
Constructed(rn) == construct(file, rn).self

IsFresh(rn) ==
    /\ pc = "ready"
    /\ Len(data.rows) = Len(file.rows)
    /\ Self = Constructed(rn)

\* ... or differs from it by the rows crop removed only
SameNames(rn) ==
    /\ pc = "ready"
    /\ data.cols = Constructed(rn).data.cols
    /\ cycles = Constructed(rn).cycles
    /\ components = Constructed(rn).components
    /\ compsIndex = Constructed(rn).compsIndex

\* N: the columns of the file between its last Cycle column and Background
FileN ==
    LET bgp == CHOOSE i \in 1..Len(file.cols) : file.cols[i] = Background
    IN Cardinality({i \in 1..(bgp - 1) :
                       \A j \in 1..Len(file.cols) : IsCycle(file.cols[j]) => j < i})

\* sub occurs in s at some offset
Occurs(sub, s) ==
    \E k \in 0..(Len(s) - Len(sub)) : \A j \in 1..Len(sub) : s[k + j] = sub[j]

\* column c of df has exactly one column of that name
OneCol(df, c) == Cardinality(ColPositions(df, c)) = 1

\* peaks succeeds, has N entries, and every key names a column of the table
PeaksHasN(self) ==
    LET p == peaks(self)
    IN /\ p.err = "none"
       /\ Cardinality(DOMAIN p.val) = FileN
       /\ \A c \in DOMAIN p.val : HasCol(self.data, c)

\* the object is CasaData(file, rename=rn) after rename(components=l)
IsRenamed(rn, l) ==
    /\ pc = "ready"
    /\ components = l
    /\ Len(data.rows) = Len(file.rows)
    /\ Self = rename(Constructed(rn), List(l), None).self

\* C1 as stated: for a file with a Background column, at least one row and N
\* component columns, peaks has exactly N entries, each keyed by a column of
\* the table, after construction and after rename(components=names) with ANY
\* list of N names
C1_Original ==
    (HasCol(file, Background) /\ Len(file.rows) >= 1) =>
      \A rn \in BOOLEAN :
        /\ IsFresh(rn) => PeaksHasN(Self)
        /\ \A l \in CompLists :
             (Len(l) = FileN /\ IsRenamed(rn, l)) => PeaksHasN(Self)

\* C1 amended: the same, for a list of N names that leaves no two columns of
\* the table with the same name (pairwise distinct, none the name of another
\* column)
C1_PeaksHasNEntries ==
    (HasCol(file, Background) /\ Len(file.rows) >= 1) =>
      \A rn \in BOOLEAN :
        /\ IsFresh(rn) => PeaksHasN(Self)
        /\ \A l \in CompLists :
             (/\ Len(l) = FileN
              /\ IsRenamed(rn, l)
              /\ ProperCall(Constructed(rn), <<List(l), None>>))
             => PeaksHasN(Self)

\* two components were renamed to two new names and peaks has two entries
C1_Witness ==
    /\ pc = "ready"
    /\ HasCol(file, Background)
    /\ FileN = 2
    /\ components = <<Fresh(1), Fresh(2)>>
    /\ Len(data.rows) >= 1
    /\ IsRenamed(TRUE, components)
    /\ PeaksHasN(Self)

\* C2: rename(components=self.components, cycles=self.cycles) raises nothing
\* and leaves the column names and their order, the cycles and the components
\* as they were; a second such call changes nothing either
C2_RenameNoop ==
    pc = "ready" =>
      LET r == rename(Self, Same, Same)
      IN /\ r.err = "none"
         /\ r.self.data.cols = data.cols
         /\ r.self.cycles = cycles
         /\ r.self.components = components
         /\ rename(r.self, Same, Same).self = Self

\* an object whose cycles and components carry names given by earlier
\* renames, on which the no-op rename has just returned
C2_Witness ==
    /\ pc = "ready"
    /\ err = "none"
    /\ cycles = <<FreshCyc(1), FreshCyc(2)>>
    /\ components = <<Fresh(1), Fresh(2)>>
    /\ rename(Self, Same, Same).self = Self

\* C3: crop(be_min, be_max) never adds a row, leaves only rows with
\* be_min < BE < be_max, and keeps every row that has be_min < BE < be_max
C3_CropOpenInterval ==
    pc = "ready" =>
      \A lo \in CropBounds, hi \in CropBounds :
        LET r == crop(Self, lo, hi)
            p == PyIndex(data.cols, BE) + 1
            old == data.rows
            new == r.self.data.rows
        IN /\ r.err = "none"
           /\ Len(new) <= Len(old)
           /\ \A i \in 1..Len(new) : lo < new[i].vals[p] /\ new[i].vals[p] < hi
           /\ \A i \in 1..Len(old) :
                (lo < old[i].vals[p] /\ old[i].vals[p] < hi)
                => \E j \in 1..Len(new) : new[j] = old[i]

\* crop removed the first row of the file and kept a later one
C3_Witness ==
    /\ pc = "ready"
    /\ err = "none"
    /\ data.rows # <<>>
    /\ Len(data.rows) < Len(file.rows)
    /\ data.rows[1].label > 0

\* the name a column of an object built with rename=False had in the file
OrigName(c) == IF c = BE THEN BERaw ELSE c

\* the object is CasaData(file, rename=rn) after filter_comps(name)
IsFiltered(rn, name) ==
    /\ pc = "ready"
    /\ Len(data.rows) = Len(file.rows)
    /\ Self = filter_comps(Constructed(rn), name).self

\* C4 as stated: after filter_comps(name) on a constructed object, the only
\* columns left in the table are those whose original name contains name
C4_Original ==
    \A name \in FilterTerms :
      IsFiltered(FALSE, name) =>
        \A i \in 1..Len(data.cols) : Occurs(name, OrigName(data.cols[i]))

\* C4 amended: after filter_comps(name) on an object as constructed, the
\* components left, in the table and in the components list, are exactly
\* those whose name contains name; every other column (BE, the cycles,
\* Background, Envelope) is left in place and no row is touched
C4_FilterComps ==
    (\E rn \in BOOLEAN : IsFresh(rn)) =>
      \A name \in FilterTerms :
        LET r == filter_comps(Self, name)
        IN /\ r.err = "none"
           /\ r.self.components = SelectSeq(components, LAMBDA c : Occurs(name, c))
           /\ r.self.data.cols = SelectSeq(data.cols,
                                   LAMBDA c : c \notin Range(components)
                                              \/ Occurs(name, c))
           /\ Len(r.self.data.rows) = Len(data.rows)
           /\ \A c \in Range(r.self.components) : OneCol(r.self.data, c)

\* filter_comps('b') on the components a, ab: a went, ab stayed
C4_Witness ==
    /\ pc = "ready"
    /\ err = "none"
    /\ compsIndex
    /\ components = <<CompPool[2]>>
    /\ HasCol(file, CompPool[1])
    /\ ~HasCol(data, CompPool[1])
    /\ HasCol(data, CompPool[2])
    /\ HasCol(data, Background)

\* Cycle1, ..., Cyclek
FromOne(k) == [i \in 1..k |-> CyclePrefix \o Decimal(i)]

\* C5 as stated: rename with cycles=None, the constructor's call included,
\* names the k cycles Cycle1, ..., Cyclek in column order and binds that list
\* to self.cycles
C5_NumericFromOne ==
    /\ IsFresh(TRUE) =>
         /\ cycles = FromOne(Len(cycles))
         /\ cycles = SelectSeq(data.cols, IsCycle)
    /\ pc = "ready" =>
         \A call \in RenameCalls :
           call[2] = None =>
             rename(Self, call[1], call[2]).self.cycles = FromOne(Len(cycles))

\* C6: without a Background column construction does not fail, components is
\* empty, peaks is the empty mapping, and plot looks up BE and the cycle
\* columns only: never Background, Envelope or a component column, so that
\* no missing column makes it raise (it completes when the table has a row)
C6_NoBackground ==
    ~HasCol(file, Background) =>
      /\ pc # "failed"
      /\ \A rn \in BOOLEAN :
           SameNames(rn) =>
             /\ components = <<>>
             /\ peaks(Self).err = "none"
             /\ DOMAIN peaks(Self).val = {}
             /\ LET p == plot(Self)
                IN /\ p.reads \subseteq ({BE} \cup Range(cycles))
                   /\ p.reads \cap ({Background, Envelope} \cup Range(CompPool)) = {}
                   /\ p.err # "KeyError"
                   /\ p.annot = <<>>
                   /\ data.rows # <<>> => p.err = "none"

\* an unfitted export with a cycle and component-named columns, plotted
C6_Witness ==
    /\ ~HasCol(file, Background)
    /\ HasCol(file, CompPool[1])
    /\ SameNames(TRUE)
    /\ cycles # <<>>
    /\ data.rows # <<>>
    /\ err = "none"
    /\ plot(Self).err = "none"
    /\ plot(Self).reads = {BE} \cup Range(cycles)

\* C7 as stated: construction succeeds for every input with a B.E. column
\* and zero or more Cycle columns
C7_ConstructSucceeds == pc # "failed"

\* C8 as stated, first half: from a constructed object, every sequence of
\* rename (given as many names as there are cycles/components), crop and
\* filter_comps calls completes without raising
C8_Lifecycle == (pc = "ready" /\ sized) => clean

\* <<x, y>> are the BE and the value of column c in the first row at which c
\* is largest
IsFirstMax(c, x, y) ==
    LET p == CHOOSE p \in 1..Len(data.cols) : data.cols[p] = c
        b == CHOOSE b \in 1..Len(data.cols) : data.cols[b] = BE
    IN \E i \in 1..Len(data.rows) :
         /\ \A j \in 1..Len(data.rows) : data.rows[j].vals[p] <= data.rows[i].vals[p]
         /\ \A j \in 1..(i - 1) : data.rows[j].vals[p] < data.rows[i].vals[p]
         /\ x = data.rows[i].vals[b]
         /\ y = data.rows[i].vals[p]

\* C9: in a table with a row, cropped or not, peaks[c] of every component
\* column c is (BE, value) of the first row at which c is largest, and plot
\* annotates that same point for c
C9_PeakAtFirstMax ==
    (/\ pc = "ready"
     /\ data.rows # <<>>
     /\ OneCol(data, BE)
     /\ \A c \in Range(components) : OneCol(data, c))
    => LET pk == peaks(Self)
           pl == plot(Self)
       IN /\ pk.err = "none"
          /\ DOMAIN pk.val = Range(components)
          /\ \A c \in Range(components) : IsFirstMax(c, pk.val[c][1], pk.val[c][2])
          /\ \A k \in 1..Len(pl.annot) :
               /\ pl.annot[k][1] = components[k]
               /\ IsFirstMax(components[k], pl.annot[k][2], pl.annot[k][3])
          /\ pl.err = "none" => Len(pl.annot) = Len(components)

\* crop removed the first row, the component is largest in two of the rows
\* left, and peaks and plot agree on the first of them
C9_Witness ==
    /\ pc = "ready"
    /\ err = "none"
    /\ Len(data.rows) >= 2
    /\ data.rows[1].label > 0
    /\ components # <<>>
    /\ OneCol(data, components[1])
    /\ LET p == PyIndex(data.cols, components[1]) + 1
       IN /\ data.rows[1].vals[p] = data.rows[2].vals[p]
          /\ \A j \in 1..Len(data.rows) : data.rows[j].vals[p] <= data.rows[1].vals[p]
          /\ data.rows[1].vals[p] > 0
    /\ plot(Self).err = "none"
    /\ Len(plot(Self).annot) = Len(components)
    /\ plot(Self).annot[1] = <<components[1]>> \o peaks(Self).val[components[1]]

\* every name in cycles and in components names exactly one column, and BE
\* is a column
NamesOK ==
    /\ \A c \in Range(cycles) \cup Range(components) : OneCol(data, c)
    /\ HasCol(data, BE)

\* C10 as stated: after any sequence of successful rename, crop and
\* filter_comps calls, rename being given lists of any length, NamesOK
C10_Original == (pc = "ready" /\ clean) => NamesOK

\* C10 amended: the same when every list given to rename has the length of
\* the collection it renames and no rename leaves two columns with one name
C10_NamesAreColumns == (pc = "ready" /\ clean /\ proper) => NamesOK

\* a component was filtered out, the one left and the cycles were renamed,
\* rows were cropped
C10_Witness ==
    /\ pc = "ready"
    /\ clean
    /\ proper
    /\ HasCol(file, Background)
    /\ FileN = 2
    /\ components = <<Fresh(1)>>
    /\ cycles = <<FreshCyc(1), FreshCyc(2)>>
    /\ Len(data.rows) < Len(file.rows)
    /\ NamesOK
====
